---------------------------- MODULE Spec2Model ----------------------------
(***************************************************************************)
(* cq-cam: the Drill operation (operations/drill.py) and the G-code letter *)
(* address layer (address.py).                                             *)
(*                                                                         *)
(* Python's None is the empty tuple <<>> and a present value v is <<v>>,   *)
(* so that "x is None" is x = <<>> and TLC never compares a number with a  *)
(* non-number.                                                             *)
(***************************************************************************)
EXTENDS Integers, Sequences, FiniteSets, TLC

VARIABLES
    pc,                   \* position inside Drill.__post_init__
    input,                \* the constructor's arguments: job, o (None or the list
                          \* of shapes self._o_objects(self.o) yields), depth,
                          \* previous_pos
    previous_pos,         \* self.previous_pos
    obj_i,                \* index of the next object of the extraction loop
    drill_vectors,        \* drill_vectors
    drill_points,         \* drill_points (the unvisited remainder)
    ordered_drill_points, \* ordered_drill_points
    last,                 \* last
    point_i,              \* index of the next point of the emission loop
    cut_sequences,        \* cut_sequences (a list of four-command lists)
    commands,             \* self.commands
    raised,               \* the OperationError raised, if any
    call,                 \* the address-layer call last made: its name and arguments
    result                \* what that call returned: a vector, a str, or the
                          \* (gcode, position) pair of to_gcode

drill_vars == <<pc, input, previous_pos, obj_i, drill_vectors, drill_points,
                ordered_drill_points, last, point_i, cut_sequences, commands,
                raised>>

address_vars == <<call, result>>

vars == <<drill_vars, address_vars>>

--------------------------------------------------------------------------
(* Bounds of the model *)

MaxObjects == 2
MaxCoord == 2
MaxDepth == 1
MaxNum == 2
MaxTool == 2

--------------------------------------------------------------------------
(* Python values.  A length is counted in halves of the unit, so that every  *)
(* float of the model is exact in binary floating point: 3 is 1.5.          *)

None == <<>>
Some(v) == <<v>>
Val(opt) == opt[1]

Abs(n) == IF n < 0 THEN -n ELSE n

\* bool(v) of a value that is None or a tuple: None and () are falsy
Truthy(opt) == opt # None /\ Len(Val(opt)) # 0

--------------------------------------------------------------------------
(* address.py: AddressVector *)

AddressVector(x, y, z) == [x |-> x, y |-> y, z |-> z]

Vector(x, y, z) == <<x, y, z>>

\* Variant: absolute mode resolves an unspecified axis to 0, as relative mode does
to_vector_unspecified_is_zero(self, origin, relative) ==
    LET d(k) == IF relative THEN origin[k] ELSE 0 IN
    Vector(IF self.x = None THEN 0 ELSE Val(self.x) - d(1),
           IF self.y = None THEN 0 ELSE Val(self.y) - d(2),
           IF self.z = None THEN 0 ELSE Val(self.z) - d(3))

to_vector(self, origin, relative) ==
    IF relative
    THEN Vector(IF self.x = None THEN 0 ELSE Val(self.x) - origin[1],
                IF self.y = None THEN 0 ELSE Val(self.y) - origin[2],
                IF self.z = None THEN 0 ELSE Val(self.z) - origin[3])
    ELSE Vector(IF self.x = None THEN origin[1] ELSE Val(self.x),
                IF self.y = None THEN origin[2] ELSE Val(self.y),
                IF self.z = None THEN origin[3] ELSE Val(self.z))

--------------------------------------------------------------------------
(* Strings *)

Char(s, i) == SubSeq(s, i, i)

\* str.split(sep) for a one-character separator
RECURSIVE SplitAt(_, _, _, _, _)
SplitAt(s, sep, i, cur, acc) ==
    IF i > Len(s) THEN Append(acc, cur)
    ELSE IF Char(s, i) = sep THEN SplitAt(s, sep, i + 1, "", Append(acc, cur))
    ELSE SplitAt(s, sep, i + 1, cur \o Char(s, i), acc)

Split(s, sep) == SplitAt(s, sep, 1, "", <<>>)

\* sep.join(list)
RECURSIVE Join(_, _)
Join(sep, list) ==
    IF list = <<>> THEN ""
    ELSE IF Len(list) = 1 THEN list[1]
    ELSE list[1] \o sep \o Join(sep, Tail(list))

\* str(n) of a Python int
IntStr(n) == ToString(n)

--------------------------------------------------------------------------
(* address.py: GCodeLetter, GCodeWord, GCodeWordPrecision *)

DefaultPrecision == 3

\* round(v, ndigits) of a float v that is a multiple of one half, ndigits >= 0:
\* a tie goes to the even neighbour
round(h, ndigits) ==
    IF ndigits >= 1 \/ h % 2 = 0 THEN h
    ELSE LET k == (h - 1) \div 2 IN IF k % 2 = 0 THEN 2 * k ELSE 2 * (k + 1)

\* utils.optimize_float, formatted: an integral value prints as an int, without
\* a decimal point, and any other value as the float it is
optimize_float(h) ==
    IF h % 2 = 0 THEN IntStr(h \div 2)
    ELSE (IF h < 0 THEN "-" ELSE "") \o IntStr(Abs(h) \div 2) \o ".5"

\* GCodeWord.__str__; the address is None or an int
GCodeWordStr(letter, address) ==
    IF address # None THEN letter \o IntStr(Val(address)) ELSE ""

\* GCodeWordPrecision.__str__; the address is None or a float
GCodeWordPrecisionStr(letter, address, precision) ==
    IF address # None
    THEN letter \o optimize_float(round(Val(address), precision))
    ELSE ""

--------------------------------------------------------------------------
(* address.py: GCodeAxisGroup, XYZ, IJK.  A group is the triple of its      *)
(* axes' strings.                                                           *)

\* Variant: every axis is joined, the empty ones too
GCodeAxisGroupStr_joins_every_axis(group) == Join(" ", <<group[1], group[2], group[3]>>)

GCodeAxisGroupStr(group) ==
    Join(" ", (IF group[1] # "" THEN <<group[1]>> ELSE <<>>)
              \o (IF group[2] # "" THEN <<group[2]>> ELSE <<>>)
              \o (IF group[3] # "" THEN <<group[3]>> ELSE <<>>))

XYZ(end, precision) ==
    <<GCodeWordPrecisionStr("X", end.x, precision),
      GCodeWordPrecisionStr("Y", end.y, precision),
      GCodeWordPrecisionStr("Z", end.z, precision)>>

IJK(center, precision) ==
    <<IF center.x # Some(0) THEN GCodeWordPrecisionStr("I", center.x, precision) ELSE "",
      IF center.y # Some(0) THEN GCodeWordPrecisionStr("J", center.y, precision) ELSE "",
      IF center.z # Some(0) THEN GCodeWordPrecisionStr("K", center.z, precision) ELSE "">>

--------------------------------------------------------------------------
(* command.py: the circular moves *)

\* the axes of the resolved end that differ from start
MovedAxes(endv, start) ==
    AddressVector(IF endv[1] # start[1] THEN Some(endv[1]) ELSE None,
                  IF endv[2] # start[2] THEN Some(endv[2]) ELSE None,
                  IF endv[3] # start[3] THEN Some(endv[3]) ELSE None)

\* the offset from start to center, on the axes the center specifies
CenterOffset(center, start) ==
    LET rel == to_vector(center, start, TRUE) IN
    AddressVector(IF center.x = None THEN None ELSE Some(rel[1]),
                  IF center.y = None THEN None ELSE Some(rel[2]),
                  IF center.z = None THEN None ELSE Some(rel[3]))

\* CircularCW.to_gcode, CircularCCW.to_gcode
CircularToGcode(modal, end, center, start, precision) ==
    LET endv == to_vector(end, start, FALSE) IN
    [gcode |-> modal
               \o GCodeAxisGroupStr(XYZ(MovedAxes(endv, start), precision))
               \o GCodeAxisGroupStr(IJK(CenterOffset(center, start), precision)),
     position |-> endv]

--------------------------------------------------------------------------
(* command.py, as tests/test_gcode.py fixes it: the fixed sequences *)

CoolantOn(coolant) ==
    IF coolant = "FLOOD" THEN <<"M8">> ELSE IF coolant = "MIST" THEN <<"M7">> ELSE <<>>

StartSequence(speed, coolant) ==
    Join(" ", <<"M3">>
              \o (IF speed # None THEN <<GCodeWordStr("S", speed)>> ELSE <<>>)
              \o CoolantOn(coolant))

StopSequence(coolant) ==
    Join(" ", <<"M5">> \o (IF coolant # "OFF" THEN <<"M9">> ELSE <<>>))

\* Variant: the optional stop comes before the retract
ToolChange_pause_before_retract(tool_number, speed, coolant) ==
    Join("\n", <<StopSequence(coolant),
                 "M1",
                 "G30",
                 Join(" ", <<GCodeWordStr("T", Some(tool_number)), "G43",
                             GCodeWordStr("H", Some(tool_number)), "M6">>),
                 StartSequence(speed, coolant)>>)

ToolChange(tool_number, speed, coolant) ==
    Join("\n", <<StopSequence(coolant),
                 "G30",
                 "M1",
                 Join(" ", <<GCodeWordStr("T", Some(tool_number)), "G43",
                             GCodeWordStr("H", Some(tool_number)), "M6">>),
                 StartSequence(speed, coolant)>>)

--------------------------------------------------------------------------
(* command.py: the motion commands Drill builds *)

MotionAbs(kind, x, y, z, feed, start) ==
    [kind |-> kind, end |-> AddressVector(x, y, z), start |-> start, feed |-> feed]

RapidAbs(x, y, z, start) == MotionAbs("Rapid", x, y, z, None, start)

PlungeCutAbs(z, feed, start) == MotionAbs("PlungeCut", None, None, z, feed, start)

\* the render pass: a command's end resolves against the position reached so
\* far (absolute mode), and the resolved end is threaded to the next command
ResolvedEnd(command, position) == to_vector(command.end, position, FALSE)

\* the positions reached after each command of a chain rendered in order
RECURSIVE PositionTrace(_, _)
PositionTrace(cmds, position) ==
    IF cmds = <<>> THEN <<>>
    ELSE LET reached == ResolvedEnd(Head(cmds), position) IN
         <<reached>> \o PositionTrace(Tail(cmds), reached)

--------------------------------------------------------------------------
(* strategy.py: Strategy._pick_nearest *)

DistSq(p, q) == (p[1] - q[1]) * (p[1] - q[1]) + (p[2] - q[2]) * (p[2] - q[2])

RECURSIVE PickFrom(_, _, _, _)
PickFrom(point, options, k, best) ==
    IF k > Len(options) THEN best
    ELSE PickFrom(point, options, k + 1,
                  IF DistSq(point, options[k]) < DistSq(point, best)
                  THEN options[k] ELSE best)

_pick_nearest(point, options) == PickFrom(point, options, 2, options[1])

--------------------------------------------------------------------------
(* utils.py: flatten_list *)

RECURSIVE flatten_list(_)
flatten_list(lists) ==
    IF lists = <<>> THEN <<>> ELSE Head(lists) \o flatten_list(Tail(lists))

--------------------------------------------------------------------------
(* drill.py: Drill.__post_init__ *)

ErrNoO == "o must be defined"
ErrNoDepth == "depth must be defined"
ErrType == "Object type not supported by Profile operation"
ErrEmpty == "Given wp does not contain anything to do"

\* job.top.toWorldCoords: the workplane's origin is added to a local point
transform_f(job, v) == Vector(v[1] + job.top[1], v[2] + job.top[2], v[3] + job.top[3])

\* list.index: the position of the first element equal to v
RECURSIVE IndexFrom(_, _, _)
IndexFrom(list, v, k) == IF list[k] = v THEN k ELSE IndexFrom(list, v, k + 1)

index(list, v) == IndexFrom(list, v, 1)

\* list.pop(k)
pop(list, k) == SubSeq(list, 1, k - 1) \o SubSeq(list, k + 1, Len(list))

RECURSIVE MapTransform(_, _)
MapTransform(job, vs) ==
    IF vs = <<>> THEN <<>>
    ELSE <<transform_f(job, Head(vs))>> \o MapTransform(job, Tail(vs))

\* lines 40-53: the vectors one supported object contributes
ObjectVectors(job, obj) ==
    IF obj.type = "Vector" THEN <<transform_f(job, obj.center)>>
    ELSE IF obj.type = "Wire" THEN <<transform_f(job, obj.center)>>
    ELSE IF obj.inner # <<>> THEN MapTransform(job, obj.inner)
    ELSE <<transform_f(job, obj.center)>>

\* Variant: the final else branch is missing, any other object is taken as a Face
Supported_any(obj) == TRUE

Supported(obj) == obj.type \in {"Vector", "Wire", "Face"}

\* line 62
RECURSIVE Project(_)
Project(vs) ==
    IF vs = <<>> THEN <<>> ELSE <<<<Head(vs)[1], Head(vs)[2]>>>> \o Project(Tail(vs))

\* Variant: a last point at the origin counts as no last point
NextDrillPoint_origin_is_falsy(l, points) ==
    IF l # None /\ (Val(l)[1] # 0 \/ Val(l)[2] # 0)
    THEN _pick_nearest(Val(l), points) ELSE points[1]

\* lines 67-69
NextDrillPoint(l, points) ==
    IF Truthy(l) THEN _pick_nearest(Val(l), points) ELSE points[1]

\* Variant: every point equal to the visited one is removed
RemoveVisited_every_equal(points, drill_point) ==
    SelectSeq(points, LAMBDA p : p # drill_point)

\* lines 70-71
RemoveVisited(points, drill_point) == pop(points, index(points, drill_point))

\* lines 65-72: the whole ordering loop
RECURSIVE OrderAll(_, _)
OrderAll(l, points) ==
    IF points = <<>> THEN <<>>
    ELSE LET drill_point == NextDrillPoint(l, points) IN
         <<drill_point>> \o OrderAll(Some(drill_point), RemoveVisited(points, drill_point))

\* Variant: the depth is negated without taking its absolute value
CutDepth_keeps_sign(d) == -d

\* line 74
CutDepth(d) == -Abs(d)

\* Variant: the move to the target comes before the retract to safe height
PointOps_xy_before_retract(job, point, depth, prev) ==
    LET c1 == RapidAbs(Some(point[1]), Some(point[2]), None, prev)
        c2 == RapidAbs(None, None, Some(job.op_safe_height), c1.end)
        c3 == RapidAbs(None, None, Some(0), c2.end)
        c4 == PlungeCutAbs(Some(depth), Some(job.feed), c3.end)
    IN  [ops |-> <<c1, c2, c3, c4>>, previous_pos |-> c4.end]

\* Variant: the retract before the move to the target stops at the stock
\* surface instead of the safe height
PointOps_retract_to_surface(job, point, depth, prev) ==
    LET c1 == RapidAbs(None, None, Some(0), prev)
        c2 == RapidAbs(Some(point[1]), Some(point[2]), None, c1.end)
        c3 == RapidAbs(None, None, Some(0), c2.end)
        c4 == PlungeCutAbs(Some(depth), Some(job.feed), c3.end)
    IN  [ops |-> <<c1, c2, c3, c4>>, previous_pos |-> c4.end]

\* Variant: previous_pos is not updated after the move to the target, so the
\* rapid to the surface starts at a stale position
PointOps_stale_start(job, point, depth, prev) ==
    LET c1 == RapidAbs(None, None, Some(job.op_safe_height), prev)
        c2 == RapidAbs(Some(point[1]), Some(point[2]), None, c1.end)
        c3 == RapidAbs(None, None, Some(0), c1.end)
        c4 == PlungeCutAbs(Some(depth), Some(job.feed), c3.end)
    IN  [ops |-> <<c1, c2, c3, c4>>, previous_pos |-> c4.end]

\* lines 76-86: the four commands of one target and the position after them
PointOps(job, point, depth, prev) ==
    LET c1 == RapidAbs(None, None, Some(job.op_safe_height), prev)
        c2 == RapidAbs(Some(point[1]), Some(point[2]), None, c1.end)
        c3 == RapidAbs(None, None, Some(0), c2.end)
        c4 == PlungeCutAbs(Some(depth), Some(job.feed), c3.end)
    IN  [ops |-> <<c1, c2, c3, c4>>, previous_pos |-> c4.end]

\* lines 30-31
StartPosition(given) ==
    IF given = None THEN AddressVector(None, None, None) ELSE Val(given)

\* lines 75-88: the commands of all targets, flattened
RECURSIVE EmitAll(_, _, _, _)
EmitAll(job, points, depth, prev) ==
    IF points = <<>> THEN <<>>
    ELSE LET r == PointOps(job, Head(points), depth, prev) IN
         r.ops \o EmitAll(job, Tail(points), depth, r.previous_pos)

\* lines 74-89: the command sequence of a Drill with the given depth
DrillCommands(job, points, d, prev) == EmitAll(job, points, CutDepth(d), prev)

\* lines 28-37
Validate ==
    /\ pc = "validate"
    /\ previous_pos' = Some(StartPosition(previous_pos))
    /\ IF input.o = None
       THEN pc' = "raised" /\ raised' = Some(ErrNoO)
       ELSE IF input.depth = None
       THEN pc' = "raised" /\ raised' = Some(ErrNoDepth)
       ELSE pc' = "extract" /\ UNCHANGED raised
    /\ UNCHANGED <<address_vars, input, obj_i, drill_vectors, drill_points,
                   ordered_drill_points, last, point_i, cut_sequences, commands>>

\* lines 39-57, one object
ExtractObject ==
    /\ pc = "extract"
    /\ obj_i <= Len(Val(input.o))
    /\ LET obj == Val(input.o)[obj_i] IN
       IF Supported(obj)
       THEN /\ drill_vectors' = drill_vectors \o ObjectVectors(input.job, obj)
            /\ obj_i' = obj_i + 1
            /\ UNCHANGED <<pc, raised>>
       ELSE /\ pc' = "raised"
            /\ raised' = Some(ErrType)
            /\ UNCHANGED <<drill_vectors, obj_i>>
    /\ UNCHANGED <<address_vars, input, previous_pos, drill_points,
                   ordered_drill_points, last, point_i, cut_sequences, commands>>

\* lines 59-65
CheckTargets ==
    /\ pc = "extract"
    /\ obj_i > Len(Val(input.o))
    /\ IF drill_vectors = <<>>
       THEN /\ pc' = "raised"
            /\ raised' = Some(ErrEmpty)
            /\ UNCHANGED <<drill_points, ordered_drill_points, cut_sequences, last>>
       ELSE /\ pc' = "order"
            /\ drill_points' = Project(drill_vectors)
            /\ ordered_drill_points' = <<>>
            /\ cut_sequences' = <<>>
            /\ last' = None
            /\ UNCHANGED raised
    /\ UNCHANGED <<address_vars, input, previous_pos, obj_i, drill_vectors, point_i,
                   commands>>

\* lines 66-72, one iteration
OrderStep ==
    /\ pc = "order"
    /\ drill_points # <<>>
    /\ LET drill_point == NextDrillPoint(last, drill_points) IN
       /\ ordered_drill_points' = Append(ordered_drill_points, drill_point)
       /\ drill_points' = RemoveVisited(drill_points, drill_point)
       /\ last' = Some(drill_point)
    /\ UNCHANGED <<address_vars, pc, input, previous_pos, obj_i, drill_vectors, point_i,
                   cut_sequences, commands, raised>>

\* the while loop ends
OrderDone ==
    /\ pc = "order"
    /\ drill_points = <<>>
    /\ pc' = "emit"
    /\ UNCHANGED <<address_vars, input, previous_pos, obj_i, drill_vectors, drill_points,
                   ordered_drill_points, last, point_i, cut_sequences, commands,
                   raised>>

\* lines 75-87, one target
EmitPoint ==
    /\ pc = "emit"
    /\ point_i <= Len(ordered_drill_points)
    /\ LET r == PointOps(input.job, ordered_drill_points[point_i],
                         CutDepth(Val(input.depth)), Val(previous_pos)) IN
       /\ cut_sequences' = Append(cut_sequences, r.ops)
       /\ previous_pos' = Some(r.previous_pos)
    /\ point_i' = point_i + 1
    /\ UNCHANGED <<address_vars, pc, input, obj_i, drill_vectors, drill_points,
                   ordered_drill_points, last, commands, raised>>

\* lines 88-89
AssignCommands ==
    /\ pc = "emit"
    /\ point_i > Len(ordered_drill_points)
    /\ commands' = Some(flatten_list(cut_sequences))
    /\ pc' = "done"
    /\ UNCHANGED <<address_vars, input, previous_pos, obj_i, drill_vectors, drill_points,
                   ordered_drill_points, last, point_i, cut_sequences, raised>>

--------------------------------------------------------------------------
(* The calls into the address layer and the fixed sequences *)

Nums == -MaxNum .. MaxNum

OptNums == {None} \cup {Some(n) : n \in Nums}

AddressVectors == {AddressVector(x, y, z) : x \in OptNums, y \in OptNums, z \in OptNums}

Vectors == {Vector(x, y, z) : x \in Nums, y \in Nums, z \in Nums}

Precisions == {0, DefaultPrecision}

PlainLetters == {"F", "S", "P", "T", "D", "H"}

AxisLetters == {"X", "Y", "Z", "I", "J", "K"}

Coolants == {"OFF", "MIST", "FLOOD"}

Speeds == {None, Some(1000), Some(12000)}

ArcStarts == {Vector(x, y, 0) : x \in Nums, y \in {0, 2}}

ArcEnds == {AddressVector(x, y, None) : x \in OptNums, y \in {None, Some(0)}}

ArcCenters ==
    LET axis == {None, Some(0), Some(2)} IN
    {AddressVector(x, y, z) : x \in axis, y \in axis, z \in axis}

NoCall == [op |-> "none"]

NoResult == [returned |-> FALSE]

CallToVector ==
    /\ call.op = "none"
    /\ \E self \in AddressVectors, origin \in Vectors, relative \in BOOLEAN :
        /\ call' = [op |-> "to_vector", self |-> self, origin |-> origin,
                    relative |-> relative]
        /\ result' = [vector |-> to_vector(self, origin, relative)]
    /\ UNCHANGED drill_vars

CallWordStr ==
    /\ call.op = "none"
    /\ \E letter \in PlainLetters,
          address \in {None} \cup {Some(n) : n \in 0 .. MaxTool} :
        /\ call' = [op |-> "GCodeWord", letter |-> letter, address |-> address]
        /\ result' = [str |-> GCodeWordStr(letter, address)]
    /\ UNCHANGED drill_vars

CallPrecisionWordStr ==
    /\ call.op = "none"
    /\ \E letter \in AxisLetters, address \in OptNums, precision \in Precisions :
        /\ call' = [op |-> "GCodeWordPrecision", letter |-> letter,
                    address |-> address, precision |-> precision]
        /\ result' = [str |-> GCodeWordPrecisionStr(letter, address, precision)]
    /\ UNCHANGED drill_vars

CallXYZStr ==
    /\ call.op = "none"
    /\ \E end \in AddressVectors, precision \in Precisions :
        /\ call' = [op |-> "XYZ", vector |-> end, precision |-> precision]
        /\ result' = [str |-> GCodeAxisGroupStr(XYZ(end, precision))]
    /\ UNCHANGED drill_vars

CallIJKStr ==
    /\ call.op = "none"
    /\ \E center \in AddressVectors, precision \in Precisions :
        /\ call' = [op |-> "IJK", vector |-> center, precision |-> precision]
        /\ result' = [str |-> GCodeAxisGroupStr(IJK(center, precision))]
    /\ UNCHANGED drill_vars

CallCircular ==
    /\ call.op = "none"
    /\ \E modal \in {"G2", "G3"}, end \in ArcEnds, center \in ArcCenters,
       start \in ArcStarts, precision \in Precisions :
        /\ call' = [op |-> "Circular", modal |-> modal, end |-> end,
                    center |-> center, start |-> start, precision |-> precision]
        /\ result' = CircularToGcode(modal, end, center, start, precision)
    /\ UNCHANGED drill_vars

CallStartSequence ==
    /\ call.op = "none"
    /\ \E speed \in Speeds, coolant \in Coolants :
        /\ call' = [op |-> "StartSequence", speed |-> speed, coolant |-> coolant]
        /\ result' = [gcode |-> StartSequence(speed, coolant), position |-> None]
    /\ UNCHANGED drill_vars

CallStopSequence ==
    /\ call.op = "none"
    /\ \E coolant \in Coolants :
        /\ call' = [op |-> "StopSequence", coolant |-> coolant]
        /\ result' = [gcode |-> StopSequence(coolant), position |-> None]
    /\ UNCHANGED drill_vars

CallToolChange ==
    /\ call.op = "none"
    /\ \E tool_number \in 1 .. MaxTool, speed \in Speeds, coolant \in Coolants :
        /\ call' = [op |-> "ToolChange", tool_number |-> tool_number,
                    speed |-> speed, coolant |-> coolant]
        /\ result' = [gcode |-> ToolChange(tool_number, speed, coolant),
                      position |-> None]
    /\ UNCHANGED drill_vars

\* no Drill is under construction
DrillIdle ==
    /\ pc = "idle"
    /\ input = None
    /\ previous_pos = None
    /\ obj_i = 1
    /\ drill_vectors = <<>>
    /\ drill_points = <<>>
    /\ ordered_drill_points = <<>>
    /\ last = None
    /\ point_i = 1
    /\ cut_sequences = <<>>
    /\ commands = None
    /\ raised = None

AddressInit == DrillIdle /\ call = NoCall /\ result = NoResult

AddressNext ==
    \/ CallToVector
    \/ CallWordStr
    \/ CallPrecisionWordStr
    \/ CallXYZStr
    \/ CallIJKStr
    \/ CallCircular
    \/ CallStartSequence
    \/ CallStopSequence
    \/ CallToolChange

SpecAddress == AddressInit /\ [][AddressNext]_vars

--------------------------------------------------------------------------
(* The inputs of Drill *)

Coords == 0 .. MaxCoord

\* the local points the shapes lie at: a row on the X axis and one point off it
Points == {Vector(x, 0, 0) : x \in Coords} \cup {Vector(0, 1, 0)}

Shape(type, center, inner) == [type |-> type, center |-> center, inner |-> inner]

Objects ==
    {Shape("Vector", p, <<>>) : p \in Points}
    \cup {Shape("Wire", Vector(1, 0, 0), <<>>)}
    \cup {Shape("Face", Vector(0, 1, 0), <<>>),
          Shape("Face", Vector(0, 0, 0), <<Vector(MaxCoord, 0, 0), Vector(1, 0, 0)>>),
          Shape("Face", Vector(0, 0, 0), <<Vector(1, 0, 0), Vector(0, 0, 0)>>)}
    \cup {Shape("Other", Vector(0, 0, 0), <<>>)}

RECURSIVE ListsUpTo(_, _)
ListsUpTo(S, n) ==
    IF n = 0 THEN {<<>>}
    ELSE LET shorter == ListsUpTo(S, n - 1) IN
         shorter \cup {Append(l, e) : l \in {s \in shorter : Len(s) = n - 1}, e \in S}

Jobs == {[op_safe_height |-> 2, feed |-> 100, top |-> Vector(0, 0, 0)],
         [op_safe_height |-> 1, feed |-> 50, top |-> Vector(1, 0, 0)]}

Depths == {None} \cup {Some(d) : d \in -MaxDepth .. MaxDepth}

StartPositions == {None, Some(AddressVector(Some(1), Some(1), Some(1)))}

DrillInit ==
    /\ pc = "validate"
    /\ input \in [job : Jobs,
                  o : {None} \cup {Some(l) : l \in ListsUpTo(Objects, MaxObjects)},
                  depth : Depths,
                  previous_pos : StartPositions]
    /\ previous_pos = input.previous_pos
    /\ obj_i = 1
    /\ drill_vectors = <<>>
    /\ drill_points = <<>>
    /\ ordered_drill_points = <<>>
    /\ last = None
    /\ point_i = 1
    /\ cut_sequences = <<>>
    /\ commands = None
    /\ raised = None
    /\ call = NoCall
    /\ result = NoResult

Init == DrillInit

Next ==
    \/ Validate
    \/ ExtractObject
    \/ CheckTargets
    \/ OrderStep
    \/ OrderDone
    \/ EmitPoint
    \/ AssignCommands

Spec == Init /\ [][Next]_vars

--------------------------------------------------------------------------
(* Properties *)

Range(seq) == {seq[i] : i \in 1 .. Len(seq)}

Count(seq, e) == Cardinality({i \in 1 .. Len(seq) : seq[i] = e})

SameMultiset(a, b) ==
    /\ Len(a) = Len(b)
    /\ \A e \in Range(a) \cup Range(b) : Count(a, e) = Count(b, e)

Axis(v, k) == IF k = 1 THEN v.x ELSE IF k = 2 THEN v.y ELSE v.z

\* the targets extraction produced, as the ordering loop receives them
Targets == Project(drill_vectors)

\* the commands emitted so far
Emitted == flatten_list(cut_sequences)

\* C1: resolving an AddressVector against an origin in absolute mode takes, on
\* every axis independently, the origin's value where the axis is unspecified
\* and the axis's own value where it is specified; with all three axes
\* unspecified the result is exactly the origin.
C1_AbsoluteResolvesEachAxis ==
    (call.op = "to_vector" /\ ~call.relative) =>
        /\ \A k \in 1 .. 3 :
              result.vector[k] = IF Axis(call.self, k) = None THEN call.origin[k]
                                 ELSE Val(Axis(call.self, k))
        /\ call.self = AddressVector(None, None, None) => result.vector = call.origin

\* C1 witness: X and Z specified, Y unspecified, resolved against (0.5, 0.5, 0.5)
C1_Witness ==
    /\ call.op = "to_vector"
    /\ ~call.relative
    /\ call.self = AddressVector(Some(2), None, Some(-1))
    /\ call.origin = Vector(1, 1, 1)
    /\ result.vector = Vector(2, 1, -1)

\* C2: at every step of the ordering loop the targets ordered so far together
\* with the remaining ones are the extracted targets as a multiset (repeated
\* points included); every step visits exactly one target, so the remainder
\* shrinks to empty, and once the loop is left the remainder is empty and the
\* ordered list is a permutation of the extracted targets.
C2_OrderingIsPermutation ==
    /\ pc \in {"order", "emit", "done"} =>
          /\ SameMultiset(ordered_drill_points \o drill_points, Targets)
          /\ Len(ordered_drill_points) + Len(drill_points) = Len(Targets)
    /\ pc = "order" => (drill_points = <<>> <=> ENABLED OrderDone)
    /\ pc = "order" => (drill_points # <<>> <=> ENABLED OrderStep)
    /\ pc \in {"emit", "done"} =>
          /\ drill_points = <<>>
          /\ SameMultiset(ordered_drill_points, Targets)

\* C2 witness: a target list with a repeated point has been ordered
C2_Witness ==
    /\ pc = "done"
    /\ Targets = << <<0, 0>>, <<1, 0>>, <<0, 0>> >>
    /\ ordered_drill_points = << <<0, 0>>, <<0, 0>>, <<1, 0>> >>

\* C3: the first visited target is the first extracted target, and every later
\* visited target is at minimum Euclidean distance from the target visited just
\* before it among all targets unvisited at that step (those visited later and
\* those still remaining); the finished order is a function of the extracted
\* target list alone, whatever the job, the depth and the start position.
C3_GreedyNearestNeighbour ==
    pc \in {"order", "emit", "done"} =>
        /\ pc # "order" => ordered_drill_points = OrderAll(None, Targets)
        /\ ordered_drill_points # <<>> => ordered_drill_points[1] = Targets[1]
        /\ \A k \in 2 .. Len(ordered_drill_points) :
              \A q \in Range(SubSeq(ordered_drill_points, k, Len(ordered_drill_points)))
                       \cup Range(drill_points) :
                  DistSq(ordered_drill_points[k - 1], ordered_drill_points[k])
                      <= DistSq(ordered_drill_points[k - 1], q)

\* C3 witness: the first target is (0,0) and the visiting order differs from the
\* input order
C3_Witness ==
    /\ pc = "done"
    /\ Targets = << <<0, 0>>, <<2, 0>>, <<1, 0>> >>
    /\ ordered_drill_points = << <<0, 0>>, <<1, 0>>, <<2, 0>> >>

\* C4: for n ordered targets the command sequence has exactly 4*n commands, and
\* the k-th group of four is: a rapid specifying only Z = the job's safe height,
\* a rapid specifying only X and Y of the k-th ordered target, a rapid
\* specifying only Z = 0, and a plunge cut specifying only Z, at the job's feed
\* rate; the groups are in visiting order.
C4_FourCommandsPerTarget ==
    pc = "done" =>
        LET cmds == Val(commands)
            n == Len(ordered_drill_points)
        IN  /\ Len(cmds) = 4 * n
            /\ \A k \in 0 .. n - 1 :
                  /\ cmds[4 * k + 1].kind = "Rapid"
                  /\ cmds[4 * k + 1].end =
                         AddressVector(None, None, Some(input.job.op_safe_height))
                  /\ cmds[4 * k + 1].feed = None
                  /\ cmds[4 * k + 2].kind = "Rapid"
                  /\ cmds[4 * k + 2].end =
                         AddressVector(Some(ordered_drill_points[k + 1][1]),
                                       Some(ordered_drill_points[k + 1][2]), None)
                  /\ cmds[4 * k + 2].feed = None
                  /\ cmds[4 * k + 3].kind = "Rapid"
                  /\ cmds[4 * k + 3].end = AddressVector(None, None, Some(0))
                  /\ cmds[4 * k + 3].feed = None
                  /\ cmds[4 * k + 4].kind = "PlungeCut"
                  /\ cmds[4 * k + 4].end.x = None
                  /\ cmds[4 * k + 4].end.y = None
                  /\ cmds[4 * k + 4].end.z # None
                  /\ cmds[4 * k + 4].feed = Some(input.job.feed)

\* C4 witness: three targets, twelve commands
C4_Witness ==
    /\ pc = "done"
    /\ Len(ordered_drill_points) = 3
    /\ Len(Val(commands)) = 12
    /\ ordered_drill_points[1] # ordered_drill_points[2]

\* C5: for a provided depth d of either sign every plunge cut targets
\* Z = -|d|, never a positive Z, and the command sequence is the one the same
\* targets, job and start position give with depth -d.
C5_DepthSignIrrelevant ==
    pc = "done" =>
        LET d == Val(input.depth) IN
        /\ \A k \in 1 .. Len(Val(commands)) :
              Val(commands)[k].kind = "PlungeCut" =>
                  /\ Val(commands)[k].end.z = Some(-Abs(d))
                  /\ Val(Val(commands)[k].end.z) <= 0
        /\ Val(commands) = DrillCommands(input.job, ordered_drill_points, -d,
                                         StartPosition(input.previous_pos))

\* C5 witness: a positive depth was given and the plunge goes down
C5_Witness ==
    /\ pc = "done"
    /\ input.depth = Some(1)
    /\ Val(commands)[4].kind = "PlungeCut"
    /\ Val(commands)[4].end.z = Some(-1)

\* the conditions under which construction must fail
MissingTargets == input.o = None
MissingDepth == input.depth = None
UnsupportedShape ==
    /\ input.o # None
    /\ \E i \in 1 .. Len(Val(input.o)) : Val(input.o)[i].type \notin {"Vector", "Wire", "Face"}
NoTargets == input.o # None /\ Val(input.o) = <<>>

\* the error of the first check that fails, in the order the checks are made
FirstError ==
    IF MissingTargets THEN ErrNoO
    ELSE IF MissingDepth THEN ErrNoDepth
    ELSE IF UnsupportedShape THEN ErrType
    ELSE ErrEmpty

\* C6: when the target input or the depth is missing, a target object has an
\* unsupported type, or extraction yields no targets, construction never gets
\* past extraction: it keeps running until it raises, it raises the error of
\* the first failing check, the four errors are distinct, and the command
\* sequence is never assigned and no command is built.  Construction raises in
\* no other case.
C6_FailFast ==
    /\ Cardinality({ErrNoO, ErrNoDepth, ErrType, ErrEmpty}) = 4
    /\ (MissingTargets \/ MissingDepth \/ UnsupportedShape \/ NoTargets) =>
          /\ pc \in {"validate", "extract", "raised"}
          /\ pc # "raised" => ENABLED (Validate \/ ExtractObject \/ CheckTargets)
          /\ commands = None
          /\ cut_sequences = <<>>
    /\ pc = "raised" =>
          /\ MissingTargets \/ MissingDepth \/ UnsupportedShape \/ NoTargets
          /\ raised = Some(FirstError)
          /\ ~ENABLED Next
    /\ raised # None => pc = "raised"
    /\ commands # None => pc = "done"

\* C6 witness: an unsupported object is met after a supported one was extracted
C6_Witness ==
    /\ pc = "raised"
    /\ raised = Some(ErrType)
    /\ drill_vectors # <<>>
    /\ commands = None

\* how the restart line of a tool change reads without the coolant word
RestartWithoutCoolant ==
    "M3" \o (IF call.speed # None THEN " S" \o IntStr(Val(call.speed)) ELSE "")

\* the first four blocks of a tool change
ToolChangeHead ==
    <<"M5" \o (IF call.coolant # "OFF" THEN " M9" ELSE ""),
      "G30",
      "M1",
      "T" \o IntStr(call.tool_number) \o " G43 H" \o IntStr(call.tool_number) \o " M6">>

\* C7 as stated: the tool change renders five newline-separated blocks, stop,
\* retract, optional stop, tool change and restart, and the restart line holds
\* only M3 and the speed word, with coolant not re-asserted.
C7_RestartOmitsCoolant ==
    call.op = "ToolChange" =>
        Split(result.gcode, "\n") = ToolChangeHead \o <<RestartWithoutCoolant>>

\* C7 amended: the tool change renders five newline-separated blocks, stop,
\* retract, optional stop, tool change and restart; the restart line holds M3,
\* the speed word when a speed is given, and then the coolant word again: M8
\* for FLOOD, M7 for MIST, nothing for OFF.
C7_RestartReassertsCoolant ==
    call.op = "ToolChange" =>
        Split(result.gcode, "\n") =
            ToolChangeHead \o
            <<RestartWithoutCoolant
              \o (IF call.coolant = "FLOOD" THEN " M8"
                  ELSE IF call.coolant = "MIST" THEN " M7" ELSE "")>>

\* C7 witness: ToolChange(2, speed=1000, coolant=FLOOD)
C7_Witness ==
    /\ call.op = "ToolChange"
    /\ call.tool_number = 2
    /\ call.speed = Some(1000)
    /\ call.coolant = "FLOOD"
    /\ result.gcode = "M5 M9\nG30\nM1\nT2 G43 H2 M6\nM3 S1000 M8"

RECURSIVE ContainsFrom(_, _, _)
ContainsFrom(s, ch, i) ==
    IF i > Len(s) THEN FALSE
    ELSE IF Char(s, i) = ch THEN TRUE ELSE ContainsFrom(s, ch, i + 1)

Contains(s, ch) == ContainsFrom(s, ch, 1)

\* C8: a circular move renders an I, J or K word for every axis the center
\* specifies, a zero offset included, and for no other axis; its gcode starts
\* with the modal, and its end inherits the unspecified axes from start; the
\* CW arc from (-1,0,0) to (1,0,None) around (0,0,None) renders G2X1I1J0 and
\* resolves to (1,0,0).
C8_ArcRetainsZeroOffset ==
    call.op = "Circular" =>
        /\ SubSeq(result.gcode, 1, 2) = call.modal
        /\ \A k \in 1 .. 3 :
              Contains(result.gcode, <<"I", "J", "K">>[k])
                  <=> Axis(call.center, k) # None
        /\ \A k \in 1 .. 3 :
              result.position[k] = IF Axis(call.end, k) = None THEN call.start[k]
                                   ELSE Val(Axis(call.end, k))
        /\ ( /\ call.modal = "G2"
             /\ call.start = Vector(-2, 0, 0)
             /\ call.end = AddressVector(Some(2), Some(0), None)
             /\ call.center = AddressVector(Some(0), Some(0), None) )
           => result = [gcode |-> "G2X1I1J0", position |-> Vector(2, 0, 0)]

Digits == {"0", "1", "2", "3", "4", "5", "6", "7", "8", "9"}

\* a letter followed by a number: an optional sign, digits, an optional fraction
IsWord(token, letters) ==
    /\ Len(token) >= 2
    /\ Char(token, 1) \in letters
    /\ \A i \in 2 .. Len(token) : Char(token, i) \in Digits \cup {"-", "."}
    /\ Char(token, Len(token)) \in Digits

LetterIndex(letters, ch) == CHOOSE k \in 1 .. Len(letters) : letters[k] = ch

\* C9: a plain or precision word without a value renders as the empty string
\* and one with a value as its letter followed by the number; an axis group
\* renders as words separated by single spaces, with no empty token and no
\* leading or trailing separator; every word in it is the letter of an axis
\* that has a value, followed by a number, and the words keep the X,Y,Z or
\* I,J,K order.
C9_NoLetterWithoutValue ==
    /\ call.op \in {"GCodeWord", "GCodeWordPrecision"} =>
          IF call.address = None THEN result.str = ""
          ELSE IsWord(result.str, {call.letter})
    /\ call.op \in {"XYZ", "IJK"} =>
          LET letters == IF call.op = "XYZ" THEN <<"X", "Y", "Z">>
                         ELSE <<"I", "J", "K">>
              tokens == IF result.str = "" THEN <<>> ELSE Split(result.str, " ")
          IN  /\ \A i \in 1 .. Len(tokens) :
                    /\ tokens[i] # ""
                    /\ IsWord(tokens[i], Range(letters))
                    /\ Axis(call.vector,
                            LetterIndex(letters, Char(tokens[i], 1))) # None
              /\ \A i \in 1 .. Len(tokens) - 1 :
                    LetterIndex(letters, Char(tokens[i], 1))
                        < LetterIndex(letters, Char(tokens[i + 1], 1))
              /\ call.vector = AddressVector(None, None, None) => result.str = ""

\* C9 witness: an XYZ group whose middle axis has no value
C9_Witness ==
    /\ call.op = "XYZ"
    /\ call.vector = AddressVector(Some(2), None, Some(-1))
    /\ call.precision = DefaultPrecision
    /\ result.str = "X1 Z-0.5"

\* C10: the first emitted command starts at the caller's previous position, or
\* at an all-unspecified AddressVector when none was given; every later
\* command starts at the end of the command emitted immediately before it;
\* previous_pos is the end of the last command emitted; and the commands
\* assigned at the end are the emitted ones, in order.
C10_PositionThreadedSequentially ==
    pc \in {"emit", "done"} =>
        /\ Emitted # <<>> =>
              /\ Emitted[1].start = StartPosition(input.previous_pos)
              /\ previous_pos = Some(Emitted[Len(Emitted)].end)
        /\ Emitted = <<>> => previous_pos = Some(StartPosition(input.previous_pos))
        /\ \A k \in 2 .. Len(Emitted) : Emitted[k].start = Emitted[k - 1].end
        /\ pc = "done" => commands = Some(Emitted)

\* C10 witness: no previous position was given and two targets were drilled
C10_Witness ==
    /\ pc = "done"
    /\ input.previous_pos = None
    /\ Len(Val(commands)) = 8
    /\ Val(commands)[1].start = AddressVector(None, None, None)
    /\ Val(commands)[5].start = Val(commands)[4].end
    /\ previous_pos = Some(Val(commands)[8].end)

--------------------------------------------------------------------------
(* Safe travel *)

\* the machine positions a rendered chain may start from: over a target or
\* off every target, and below the surface, on it, at either job's safe
\* height
InitialPositions == {Vector(x, y, z) : x \in {-1, 0}, y \in {0, 1}, z \in -1 .. 2}

MovesXY(from, to) == from[1] # to[1] \/ from[2] # to[2]

\* C11: in the position trace got by resolving the emitted commands in order
\* from any initial position, a command that changes X or Y starts and ends
\* at the job's safe height, which is above the stock surface; a plunge ends
\* at -|depth| over the same X/Y; and the command after a plunge changes Z
\* alone and ends at the safe height.
C11_TravelOnlyAtSafeHeight ==
    pc \in {"emit", "done"} =>
        \A initial \in InitialPositions :
            LET cmds == Emitted
                safe == input.job.op_safe_height
                trace == <<initial>> \o PositionTrace(cmds, initial)
            IN  \A k \in 1 .. Len(cmds) :
                    LET from == trace[k]
                        to == trace[k + 1]
                    IN  /\ MovesXY(from, to) =>
                              /\ from[3] = safe
                              /\ to[3] = safe
                              /\ from[3] > 0
                        /\ cmds[k].kind = "PlungeCut" =>
                              /\ ~MovesXY(from, to)
                              /\ to[3] = -Abs(Val(input.depth))
                              /\ k < Len(cmds) =>
                                    /\ ~MovesXY(to, trace[k + 2])
                                    /\ trace[k + 2][3] = safe

\* C11 witness: two targets at different X/Y were drilled to a depth below
\* the surface, and from an initial position below the surface the trace
\* plunges at the first target, retracts, and travels to the second
C11_Witness ==
    /\ pc = "done"
    /\ Len(Val(commands)) = 8
    /\ Val(input.depth) # 0
    /\ \E initial \in InitialPositions :
          LET trace == PositionTrace(Val(commands), initial)
              safe == input.job.op_safe_height
          IN  /\ initial[3] < 0
              /\ MovesXY(initial, trace[2])
              /\ trace[4][3] < 0
              /\ trace[5] = Vector(trace[4][1], trace[4][2], safe)
              /\ MovesXY(trace[5], trace[6])
              /\ trace[6][3] = safe

==========================================================================
